---- MODULE Spec2Model ----
(***************************************************************************)
(* Model of src/app.mjs: the POST /v1/messages gateway handler (request    *)
(* translation, SSE stream translation, file materialisation), the model   *)
(* capability cache getModelConfig and the retry / circuit-breaker helper  *)
(* getCompletionWithRetry.                                                 *)
(*                                                                         *)
(* JavaScript strings are sequences of one-character strings, so that      *)
(* startsWith, split, trim, the file-name regex and JSON.parse are         *)
(* computed on characters.  An optional value (a field that may be         *)
(* undefined) is a set with at most one element.                           *)
(***************************************************************************)
EXTENDS Integers, Sequences, FiniteSets, TLC

(* ------------------------------------------------------------------ *)
(* Bounds of the model                                                 *)
(* ------------------------------------------------------------------ *)
MaxDeltas == 3
MaxRequests == 2
MaxInvocations == 5
MaxTime == 40000

(* ------------------------------------------------------------------ *)
(* JavaScript values                                                   *)
(* ------------------------------------------------------------------ *)
None == {}
Some(v) == {v}
The(o) == CHOOSE v \in o : TRUE

\* truthiness of an optional string / optional number
TruthyStr(o) == o # None /\ The(o) # <<>>
TruthyNum(o) == o # None /\ The(o) # 0

\* a || b on optional strings with a defined right operand
OrStr(o, d) == IF TruthyStr(o) THEN The(o) ELSE d
\* a || b on optional numbers
OrNum(a, b) == IF TruthyNum(a) THEN a ELSE b

StartsWith(s, p) == Len(s) >= Len(p) /\ SubSeq(s, 1, Len(p)) = p

RECURSIVE Includes(_, _)
Includes(arr, x) ==
  IF arr = <<>> THEN FALSE
  ELSE IF Head(arr) = x THEN TRUE ELSE Includes(Tail(arr), x)

(* ------------------------------------------------------------------ *)
(* Model names                                                         *)
(* ------------------------------------------------------------------ *)
M_o1 == <<"o", "1">>
M_o1_mini == <<"o", "1", "-", "m", "i", "n", "i">>
M_o3 == <<"o", "3">>
M_o3_mini == <<"o", "3", "-", "m", "i", "n", "i">>
M_gpt_4o_mini == <<"g", "p", "t", "-", "4", "o", "-", "m", "i", "n", "i">>
M_gpt_4o == <<"g", "p", "t", "-", "4", "o">>
M_gpt_4 == <<"g", "p", "t", "-", "4">>
\* names outside the allow-list
M_claude == <<"c", "l", "a", "u", "d", "e">>
M_llama == <<"l", "l", "a", "m", "a">>

allowedModels ==
  <<M_o1, M_o1_mini, M_o3, M_o3_mini, M_gpt_4o_mini, M_gpt_4o, M_gpt_4>>

\* process.env.OPENAI_MODEL: unset, or a name (allowed or not)
EnvModels == {None, Some(M_llama)}

\* every name getModelConfig can be called with in this model
Names == {M_o3_mini, M_gpt_4, M_o1_mini, M_llama}

\* the per-family table of getModelConfig, in the order of the if-chain
MaxTokensFor(modelName) ==
  IF StartsWith(modelName, M_gpt_4o_mini) THEN 16384
  ELSE IF StartsWith(modelName, M_gpt_4o) THEN 16384
  ELSE IF StartsWith(modelName, M_o1) THEN 32000
  ELSE IF StartsWith(modelName, M_o1_mini) THEN 64000
  ELSE IF StartsWith(modelName, M_o3_mini) THEN 100000
  ELSE IF StartsWith(modelName, M_gpt_4) THEN 4096
  ELSE 16384

FallbackTokens == 16384

\* modelConfigCache[name]: 0 when the key is absent, else config.max_tokens
NoConfig == 0

\* CacheHit with a fault: a cached fallback is not taken for a hit
CacheHit_IgnoresFallback(cache, modelName) ==
  cache[modelName] # NoConfig /\ cache[modelName] # FallbackTokens

\* line 88: if (modelConfigCache[modelName])
CacheHit(cache, modelName) == cache[modelName] # NoConfig

(* ------------------------------------------------------------------ *)
(* Characters                                                          *)
(* ------------------------------------------------------------------ *)
NL == "\n"
\* stands for one character of the box-drawing range U+2500..U+257F
BoxChar == "U+2500"
Digits == {"0", "1", "2", "3", "4", "5", "6", "7", "8", "9"}
Letters ==
  {"a", "b", "c", "d", "e", "f", "g", "h", "i", "j", "k", "l", "m", "n", "o",
   "p", "q", "r", "s", "t", "u", "v", "w", "x", "y", "z", "H", "W", "_"}
IsBox(c) == c = BoxChar
\* \s
IsSpace(c) == c \in {" ", "\t", "\r", NL}
\* [\w/.\-]
IsNameChar(c) == c \in Letters \cup Digits \cup {"/", ".", "-"}

DotTf == <<".", "t", "f">>

RECURSIVE SkipBox(_, _)
SkipBox(line, i) ==
  IF i <= Len(line) /\ IsBox(line[i]) THEN SkipBox(line, i + 1) ELSE i

RECURSIVE SkipSpace(_, _)
SkipSpace(line, i) ==
  IF i <= Len(line) /\ IsSpace(line[i]) THEN SkipSpace(line, i + 1) ELSE i

RECURSIVE SkipName(_, _)
SkipName(line, i) ==
  IF i <= Len(line) /\ IsNameChar(line[i]) THEN SkipName(line, i + 1) ELSE i

\* /[\u2500-\u257F]*\s*([\w/.\-]+\.tf)/ tried at start position i: the
\* captured group, or <<>> when the pattern does not match there
MatchAt(line, i) ==
  LET k == SkipSpace(line, SkipBox(line, i))
      e == SkipName(line, k)
      ends == {q \in (k + 3)..(e - 1) : SubSeq(line, q - 2, q) = DotTf}
  IN  IF ends = {} THEN <<>>
      ELSE SubSeq(line, k, CHOOSE q \in ends : \A r \in ends : r <= q)

\* line.match(...): the capture of the leftmost match, <<>> for null
MatchTf(line) ==
  LET starts == {i \in 1..Len(line) : MatchAt(line, i) # <<>>}
  IN  IF starts = {} THEN <<>>
      ELSE MatchAt(line, CHOOSE i \in starts : \A j \in starts : i <= j)

\* text.split("\n")
RECURSIVE SplitLines(_, _, _)
SplitLines(text, cur, acc) ==
  IF text = <<>> THEN Append(acc, cur)
  ELSE IF Head(text) = NL THEN SplitLines(Tail(text), <<>>, Append(acc, cur))
  ELSE SplitLines(Tail(text), Append(cur, Head(text)), acc)

\* line.trim() === ""
TrimIsEmpty(line) == \A i \in 1..Len(line) : IsSpace(line[i])

\* files[name] = content on an object whose keys keep insertion order
SetFile(files, name, content) ==
  IF \E i \in 1..Len(files) : files[i].name = name
  THEN [i \in 1..Len(files) |->
          IF files[i].name = name THEN [name |-> name, content |-> content]
          ELSE files[i]]
  ELSE Append(files, [name |-> name, content |-> content])

FileContent(files, name) ==
  LET i == CHOOSE j \in 1..Len(files) : files[j].name = name
  IN  files[i].content

\* the loop of parseFilesFromText over the remaining lines
RECURSIVE ParseLines(_, _, _)
ParseLines(lines, files, currentFile) ==
  IF lines = <<>> THEN files
  ELSE
    LET line == Head(lines)
        m == MatchTf(line)
    IN  IF m # <<>>
        THEN ParseLines(Tail(lines), SetFile(files, m, <<>>), Some(m))
        ELSE IF currentFile # None
        THEN IF TrimIsEmpty(line)
             THEN ParseLines(Tail(lines), files, None)
             ELSE ParseLines(Tail(lines),
                    SetFile(files, The(currentFile),
                            FileContent(files, The(currentFile)) \o line \o <<NL>>),
                    currentFile)
        ELSE ParseLines(Tail(lines), files, currentFile)

parseFilesFromText(text) == ParseLines(SplitLines(text, <<>>, <<>>), <<>>, None)

(* ------------------------------------------------------------------ *)
(* JSON.parse on the accumulated tool-call arguments                   *)
(*                                                                     *)
(* The grammar covered is: a number (digits), a string (word          *)
(* characters between double quotes) and a flat object of            *)
(* "key":value members.  Every text the delta alphabet below can       *)
(* accumulate is either in this grammar or is not JSON at all.         *)
(* ------------------------------------------------------------------ *)
Quote == "\""

IsJsonNumber(s) ==
  /\ s # <<>>
  /\ \A i \in 1..Len(s) : s[i] \in Digits
  /\ (Len(s) = 1 \/ s[1] # "0")

IsJsonString(s) ==
  /\ Len(s) >= 2
  /\ s[1] = Quote
  /\ s[Len(s)] = Quote
  /\ \A i \in 2..(Len(s) - 1) : s[i] \in Letters \cup Digits

IsJsonScalar(s) == IsJsonNumber(s) \/ IsJsonString(s)

\* s.split(sep) for a one-character separator
RECURSIVE SplitOn(_, _, _, _)
SplitOn(s, sep, cur, acc) ==
  IF s = <<>> THEN Append(acc, cur)
  ELSE IF Head(s) = sep THEN SplitOn(Tail(s), sep, <<>>, Append(acc, cur))
  ELSE SplitOn(Tail(s), sep, Append(cur, Head(s)), acc)

\* one "key":value member
IsJsonMember(m) ==
  LET parts == SplitOn(m, ":", <<>>, <<>>)
  IN  Len(parts) = 2 /\ IsJsonString(parts[1]) /\ IsJsonScalar(parts[2])

MemberOf(m) ==
  LET parts == SplitOn(m, ":", <<>>, <<>>)
  IN  [key |-> SubSeq(parts[1], 2, Len(parts[1]) - 1), value |-> parts[2]]

\* obj[key] = value, a later duplicate key overwriting the earlier one
RECURSIVE BuildObject(_, _)
BuildObject(members, obj) ==
  IF members = <<>> THEN obj
  ELSE
    LET m == MemberOf(Head(members))
        next == IF \E i \in 1..Len(obj) : obj[i].key = m.key
                THEN [i \in 1..Len(obj) |->
                        IF obj[i].key = m.key THEN m ELSE obj[i]]
                ELSE Append(obj, m)
    IN  BuildObject(Tail(members), next)

IsJsonObject(s) ==
  /\ Len(s) >= 2
  /\ s[1] = "{"
  /\ s[Len(s)] = "}"
  /\ LET inner == SubSeq(s, 2, Len(s) - 1)
         members == SplitOn(inner, ",", <<>>, <<>>)
     IN  inner = <<>> \/ \A i \in 1..Len(members) : IsJsonMember(members[i])

\* a parsed JSON value: kind, members of an object, text of a scalar
EmptyObject == [kind |-> "object", members |-> <<>>, scalar |-> <<>>]

\* JSON.parse(s): ok = FALSE stands for the SyntaxError it throws
JsonParse(s) ==
  IF IsJsonObject(s)
  THEN LET inner == SubSeq(s, 2, Len(s) - 1)
       IN  [ok |-> TRUE,
            value |-> [kind |-> "object",
                       members |-> IF inner = <<>> THEN <<>>
                                   ELSE BuildObject(SplitOn(inner, ",", <<>>, <<>>), <<>>),
                       scalar |-> <<>>]]
  ELSE IF IsJsonScalar(s)
  THEN [ok |-> TRUE,
        value |-> [kind |-> IF IsJsonNumber(s) THEN "number" ELSE "string",
                   members |-> <<>>, scalar |-> s]]
  ELSE [ok |-> FALSE, value |-> EmptyObject]

(* ------------------------------------------------------------------ *)
(* Requests and upstream deltas                                        *)
(* ------------------------------------------------------------------ *)
Str_Hello == <<"H", "e", "l", "l", "o">>
Str_world == <<" ", "w", "o", "r", "l", "d">>
\* a file marker line, one content line, and the end of that line
Str_file == <<"a", ".", "t", "f", NL, "x", NL>>
Str_run == <<"r", "u", "n">>
Args_full == <<"{", Quote, "x", Quote, ":", "1", "}">>
Args_head == <<"{", Quote, "x", Quote, ":">>
Args_tail == <<"1", "}">>

\* chunk.choices[0].delta
TextDelta(text) == [tool_calls |-> <<>>, content |-> text]
ToolDelta(name, arguments) ==
  [tool_calls |-> <<[name |-> name, arguments |-> arguments]>>, content |-> <<>>]
\* a delta with neither tool calls nor content (role only, or a finish chunk)
EmptyDelta == TextDelta(<<>>)

Deltas ==
  {TextDelta(Str_Hello), TextDelta(Str_world), TextDelta(Str_file),
   ToolDelta(Str_run, Args_full), ToolDelta(Str_run, Args_head),
   ToolDelta(Str_run, Args_tail), EmptyDelta}

\* the short streams of the specification that varies the request instead
FewDeltas == {TextDelta(Str_Hello), ToolDelta(Str_run, Args_full)}

UserMessages == <<[role |-> "user", content |-> "list files"]>>

\* req.body.  The messages have scalar content, and system, metadata and
\* tools are left out: they only add entries to the upstream request and
\* decide none of the handler's branches.
Requests ==
  [model : {None, Some(<<>>), Some(M_gpt_4), Some(M_o1_mini), Some(M_claude)},
   messages : {None, Some(UserMessages)},
   max_tokens : {None, Some(200000)},
   max_completion_tokens : {None, Some(5000)},
   temperature : {None, Some(0)},
   output_mode : {"stream", "file"}]

\* requests answered as a stream of events only
StreamRequests == {r \in Requests : r.output_mode = "stream"}

\* requests that leave the sampling parameters out
PlainRequests ==
  {r \in Requests :
     /\ r.max_tokens = None
     /\ r.max_completion_tokens = None
     /\ r.temperature = None
     /\ r.model \in {None, Some(M_claude)}}

NoData == [model |-> <<>>, messages |-> <<>>, stream |-> FALSE,
           temperature |-> None, max_tokens |-> None,
           max_completion_tokens |-> None]

defaultSystemInstruction == "You are running in Claude Code CLI"

(* ------------------------------------------------------------------ *)
(* SSE events: one record per res.write of the handler                 *)
(* ------------------------------------------------------------------ *)
MessageStartEvent(model) == [type |-> "message_start", model |-> model]
BlockStartEvent(index, blockType, name) ==
  [type |-> "content_block_start", index |-> index,
   block_type |-> blockType, name |-> name]
TextDeltaEvent(index, text) ==
  [type |-> "content_block_delta", index |-> index,
   delta_type |-> "text_delta", payload |-> text]
JsonDeltaEvent(index, partial) ==
  [type |-> "content_block_delta", index |-> index,
   delta_type |-> "input_json_delta", payload |-> partial]
BlockStopEvent(index) == [type |-> "content_block_stop", index |-> index]
FilesCreatedEvent(files) == [type |-> "files_created", files |-> files]
\* MessageDeltaEvent with a fault: the stop reason is always end_turn
MessageDeltaEvent_AlwaysEndTurn(toolUse, content) ==
  [type |-> "message_delta", stop_reason |-> "end_turn", content |-> content]

\* lines 423-432
MessageDeltaEvent(toolUse, content) ==
  [type |-> "message_delta",
   stop_reason |-> IF toolUse THEN "tool_use" ELSE "end_turn",
   content |-> content]
MessageStopEvent == [type |-> "message_stop"]

\* an element of currentContentBlocks; hasText / hasInput tell whether
\* the property exists on the object
TextBlock ==
  [type |-> "text", name |-> <<>>, hasText |-> TRUE, text |-> <<>>,
   hasInput |-> FALSE, input |-> EmptyObject]
ToolBlock(name) ==
  [type |-> "tool_use", name |-> name, hasText |-> FALSE, text |-> <<>>,
   hasInput |-> TRUE, input |-> EmptyObject]

Str_undefined == <<"u", "n", "d", "e", "f", "i", "n", "e", "d">>

\* block.text += fragment (undefined + "x" is "undefinedx")
AppendText(block, fragment) ==
  [block EXCEPT !.hasText = TRUE,
                !.text = (IF block.hasText THEN block.text ELSE Str_undefined)
                         \o fragment]

(* ------------------------------------------------------------------ *)
(* State                                                               *)
(* ------------------------------------------------------------------ *)
VARIABLES
  defaultModel,          \* process.env.OPENAI_MODEL || 'o3-mini'
  modelConfigCache,      \* module-level cache of getModelConfig
  circuitBreaker,        \* module-level breaker of getCompletionWithRetry
  pc,                    \* where the handler of the current request is
  req,                   \* req.body
  chosenModel,
  isNewModel,
  data,                  \* the upstream request
  res,                   \* the HTTP response
  events,                \* the SSE events written with res.write
  contentBlockIndex,
  currentContentBlocks,
  hasStartedTextBlock,
  isToolUse,
  toolUseJson,
  fullOutput,
  pendingFiles,          \* entries of files not yet written
  createdFiles,
  chunks,                \* the chunks taken from the upstream stream so far
  clientConnected,       \* FALSE once the client has gone away
  warnings,              \* console.warn calls of the current request
  failure,               \* what threw in the current request
  chatCalls,             \* chat.completions.create calls of the request
  lookups,               \* models.retrieve calls per model name
  returned,              \* what getModelConfig has returned, per name, in order
  lookupResult,          \* how the metadata lookup of a name went
  pending,               \* getModelConfig calls awaiting their lookup, per name
  nreq,                  \* requests received so far
  now,                   \* Date.now()
  inv,                   \* the invocations of getCompletionWithRetry
  invocations,           \* invocations started so far
  trippedAt              \* Date.now() when the breaker last opened

moduleVars == <<defaultModel, modelConfigCache, circuitBreaker>>
streamVars ==
  <<contentBlockIndex, currentContentBlocks, hasStartedTextBlock, isToolUse,
    toolUseJson, fullOutput, chunks>>
fileVars == <<pendingFiles, createdFiles>>
requestVars == <<req, chosenModel, isNewModel, data, warnings, chatCalls, nreq>>
handlerVars ==
  <<pc, req, chosenModel, isNewModel, data, res, events, streamVars, fileVars,
    clientConnected, warnings, failure, chatCalls, lookups, returned,
    lookupResult, pending, nreq>>

threshold == 3

FreshResponse ==
  [headersSent |-> FALSE, statusCode |-> 200, sentStatus |-> 0,
   body |-> None, ended |-> FALSE, destroyed |-> FALSE]

InitHandler ==
  /\ \E env \in EnvModels : defaultModel = OrStr(env, M_o3_mini)
  /\ modelConfigCache = [n \in Names |-> NoConfig]
  /\ circuitBreaker = [failureCount |-> 0, open |-> FALSE, openUntil |-> 0]
  /\ pc = "idle"
  /\ req = CHOOSE r \in Requests : TRUE
  /\ chosenModel = <<>>
  /\ isNewModel = FALSE
  /\ data = NoData
  /\ res = FreshResponse
  /\ events = <<>>
  /\ contentBlockIndex = 0
  /\ currentContentBlocks = <<>>
  /\ hasStartedTextBlock = FALSE
  /\ isToolUse = FALSE
  /\ toolUseJson = <<>>
  /\ fullOutput = <<>>
  /\ pendingFiles = <<>>
  /\ createdFiles = <<>>
  /\ chunks = <<>>
  /\ clientConnected = TRUE
  /\ warnings = <<>>
  /\ failure = "none"
  /\ chatCalls = 0
  /\ lookups = [n \in Names |-> 0]
  /\ returned = [n \in Names |-> <<>>]
  /\ lookupResult = [n \in Names |-> "none"]
  /\ pending = [n \in Names |-> 0]
  /\ nreq = 0

(* ------------------------------------------------------------------ *)
(* The handler, one action per stretch between two awaits              *)
(* ------------------------------------------------------------------ *)
Terminal == {"idle", "done", "error400", "unhandled"}

\* SelectModel with a fault: the warning is also given when no model is named
SelectModel_WarnsOnAbsent(model, default) ==
  LET first == OrStr(model, default)
  IN  IF ~Includes(allowedModels, first)
      THEN [model |-> default, warned |-> TRUE]
      ELSE [model |-> first, warned |-> ~TruthyStr(model)]

\* lines 197-201: the model sent upstream and whether console.warn ran
SelectModel(model, default) ==
  LET first == OrStr(model, default)
  IN  IF ~Includes(allowedModels, first)
      THEN [model |-> default, warned |-> TRUE]
      ELSE [model |-> first, warned |-> FALSE]

\* lines 243-259: temperature and token limit of the upstream request
Negotiate(r, isNew, modelLimit) ==
  IF isNew
  THEN LET tokens == OrNum(r.max_completion_tokens, r.max_tokens)
           clamp == TruthyNum(tokens) /\ The(tokens) > modelLimit
           final == IF clamp THEN Some(modelLimit) ELSE tokens
       IN  [temperature |-> Some(1),
            max_tokens |-> None,
            max_completion_tokens |-> IF TruthyNum(final) THEN final ELSE None,
            clamped |-> clamp]
  ELSE [temperature |-> r.temperature,
        max_tokens |-> IF TruthyNum(r.max_tokens) THEN r.max_tokens ELSE None,
        max_completion_tokens |-> None,
        clamped |-> FALSE]

\* lines 206-241: system messages, then the caller's messages
BuildMessages(r) ==
  <<[role |-> "system", content |-> defaultSystemInstruction]>> \o The(r.messages)

\* the catch block, lines 441-447: res.status(400).json(...) answers
\* only while no header has gone out; afterwards json() throws
\* ERR_HTTP_HEADERS_SENT, res.end() is never reached and the handler's
\* promise rejects
CatchBlock(r, message) ==
  IF r.headersSent
  THEN [res |-> [r EXCEPT !.statusCode = 400], pc |-> "rejected"]
  ELSE [res |-> [headersSent |-> TRUE, statusCode |-> 400, sentStatus |-> 400,
                 body |-> Some([status |-> "error", message |-> message]),
                 ended |-> TRUE, destroyed |-> FALSE],
        pc |-> "error400"]

\* Translate with a fault: the upstream call is made before the messages
\* are looked at
Translate_CallsFirst(r, model, isNew, modelLimit, warned, response) ==
  LET n == Negotiate(r, isNew, modelLimit)
  IN  [pc |-> "awaitCompletion", res |-> response, failure |-> "none",
       warnings |-> IF n.clamped THEN Append(warned, "clamp") ELSE warned,
       data |-> [model |-> model,
                 messages |-> IF r.messages = None THEN <<>> ELSE BuildMessages(r),
                 stream |-> TRUE, temperature |-> n.temperature,
                 max_tokens |-> n.max_tokens,
                 max_completion_tokens |-> n.max_completion_tokens],
       called |-> TRUE]

\* lines 206-275 once getModelConfig has returned modelLimit: either
\* messages.map throws (the catch block answers) or the upstream request
\* is built and chat.completions.create is called
Translate(r, model, isNew, modelLimit, warned, response) ==
  IF r.messages = None
  THEN LET c == CatchBlock(response, "TypeError")
       IN  [pc |-> c.pc, res |-> c.res, failure |-> "body",
            warnings |-> warned, data |-> NoData, called |-> FALSE]
  ELSE LET n == Negotiate(r, isNew, modelLimit)
       IN  [pc |-> "awaitCompletion", res |-> response, failure |-> "none",
            warnings |-> IF n.clamped THEN Append(warned, "clamp") ELSE warned,
            data |-> [model |-> model, messages |-> BuildMessages(r),
                      stream |-> TRUE, temperature |-> n.temperature,
                      max_tokens |-> n.max_tokens,
                      max_completion_tokens |-> n.max_completion_tokens],
            called |-> TRUE]

\* the locals of lines 278-289, as they are before the first chunk
ResetStream ==
  /\ contentBlockIndex' = 0
  /\ currentContentBlocks' = <<>>
  /\ hasStartedTextBlock' = FALSE
  /\ isToolUse' = FALSE
  /\ toolUseJson' = <<>>
  /\ fullOutput' = <<>>
  /\ chunks' = <<>>
  /\ pendingFiles' = <<>>
  /\ createdFiles' = <<>>

\* lines 181-204: a request arrives and the handler runs to its first
\* await that leaves the event loop (the metadata lookup on a cache
\* miss, else the upstream call)
ReceiveRequest(r, maxRequests) ==
  /\ pc \in Terminal
  /\ nreq < maxRequests
  /\ nreq' = nreq + 1
  /\ req' = r
  /\ events' = <<>>
  /\ clientConnected' = TRUE
  /\ ResetStream
  /\ LET sel == SelectModel(r.model, defaultModel)
         warned == IF sel.warned THEN <<"fallback">> ELSE <<>>
         isNew == Includes(allowedModels, sel.model)
         t == Translate(r, sel.model, isNew, modelConfigCache[sel.model],
                        warned, FreshResponse)
     IN  /\ chosenModel' = sel.model
         /\ isNewModel' = isNew
         /\ IF CacheHit(modelConfigCache, sel.model)
            THEN /\ returned' = [returned EXCEPT ![sel.model] =
                                   Append(@, modelConfigCache[sel.model])]
                 /\ UNCHANGED lookups
                 /\ pc' = t.pc
                 /\ res' = t.res
                 /\ failure' = t.failure
                 /\ warnings' = t.warnings
                 /\ data' = t.data
                 /\ chatCalls' = IF t.called THEN 1 ELSE 0
            ELSE /\ lookups' = [lookups EXCEPT ![sel.model] = @ + 1]
                 /\ UNCHANGED returned
                 /\ pc' = "awaitModelInfo"
                 /\ res' = FreshResponse
                 /\ failure' = "none"
                 /\ warnings' = warned
                 /\ data' = NoData
                 /\ chatCalls' = 0
  /\ UNCHANGED <<moduleVars, lookupResult, pending>>

\* the config getModelConfig stores and returns when the lookup has
\* succeeded (lines 90-109) or failed (lines 110-114)
ResolvedConfig(modelName, ok) ==
  IF ok THEN MaxTokensFor(modelName) ELSE FallbackTokens

\* lines 90-115 and then 206-275: chatClient.models.retrieve settles
ModelInfoSettles(ok) ==
  /\ pc = "awaitModelInfo"
  /\ LET config == ResolvedConfig(chosenModel, ok)
         t == Translate(req, chosenModel, isNewModel, config, warnings, res)
     IN  /\ modelConfigCache' = [modelConfigCache EXCEPT ![chosenModel] = config]
         /\ returned' = [returned EXCEPT ![chosenModel] = Append(@, config)]
         /\ lookupResult' = [lookupResult EXCEPT ![chosenModel] =
                               IF ok THEN "ok" ELSE "failed"]
         /\ pc' = t.pc
         /\ res' = t.res
         /\ failure' = t.failure
         /\ warnings' = t.warnings
         /\ data' = t.data
         /\ chatCalls' = IF t.called THEN chatCalls + 1 ELSE chatCalls
  /\ UNCHANGED <<defaultModel, circuitBreaker, req, chosenModel, isNewModel,
                 events, streamVars, fileVars, clientConnected, lookups, pending, nreq>>

\* res.write: the first one sends the headers with the status set so far
WriteHead(r) ==
  IF r.headersSent THEN r
  ELSE [r EXCEPT !.headersSent = TRUE, !.sentStatus = r.statusCode]

\* line 275 settles.  Fulfilled: lines 276-304, the SSE headers are set
\* and message_start is written.  Rejected: the catch block.
CompletionSettles(ok) ==
  /\ pc = "awaitCompletion"
  /\ IF ok
     THEN /\ res' = WriteHead(res)
          /\ events' = <<MessageStartEvent(chosenModel)>>
          /\ pc' = "streaming"
          /\ UNCHANGED failure
     ELSE LET c == CatchBlock(res, "upstream error")
          IN  /\ res' = c.res
              /\ pc' = c.pc
              /\ failure' = "upstream"
              /\ UNCHANGED events
  /\ UNCHANGED <<moduleVars, requestVars, streamVars, fileVars, clientConnected,
                 lookups, returned, lookupResult,
                 pending>>

(* ------------------------------------------------------------------ *)
(* The body of the for-await loop, lines 307-394, as a function of the *)
(* loop's locals st; out is what the iteration writes with res.write   *)
(* ------------------------------------------------------------------ *)
Locals ==
  [contentBlockIndex |-> contentBlockIndex,
   currentContentBlocks |-> currentContentBlocks,
   hasStartedTextBlock |-> hasStartedTextBlock,
   isToolUse |-> isToolUse,
   toolUseJson |-> toolUseJson,
   fullOutput |-> fullOutput,
   out |-> <<>>]

\* currentContentBlocks[index] of a zero-based array
HasBlock(blocks, index) == index + 1 \in 1..Len(blocks)

\* lines 309-348: a delta that carries tool calls
ToolCallBranch(st, toolCall) ==
  LET index == st.contentBlockIndex
      opens == ~st.isToolUse
      blocks1 == IF opens
                 THEN Append(st.currentContentBlocks, ToolBlock(toolCall.name))
                 ELSE st.currentContentBlocks
      out1 == IF opens
              THEN <<BlockStartEvent(index, "tool_use", toolCall.name)>>
              ELSE <<>>
      json0 == IF opens THEN <<>> ELSE st.toolUseJson
      hasArgs == toolCall.arguments # <<>>
      json1 == IF hasArgs THEN json0 \o toolCall.arguments ELSE json0
      parsed == JsonParse(json1)
      \* an assignment to a missing block throws inside the try and is
      \* swallowed like the SyntaxError
      blocks2 == IF hasArgs /\ parsed.ok /\ HasBlock(blocks1, index)
                 THEN [blocks1 EXCEPT ![index + 1].hasInput = TRUE,
                                      ![index + 1].input = parsed.value]
                 ELSE blocks1
      out2 == IF hasArgs
              THEN <<JsonDeltaEvent(index, toolCall.arguments)>>
              ELSE <<>>
  IN  [st EXCEPT !.isToolUse = TRUE,
                 !.currentContentBlocks = blocks2,
                 !.toolUseJson = json1,
                 !.out = out1 \o out2]

\* TextBranch with a fault: text that arrives while a tool-use block is
\* open is not added to the full output
TextBranch_DropsAfterToolUse(st, content, fileMode) ==
  LET index == st.contentBlockIndex
      full == IF fileMode THEN st.fullOutput \o content ELSE st.fullOutput
  IN  IF ~st.isToolUse
      THEN LET opens == ~st.hasStartedTextBlock
               blocks1 == IF opens
                          THEN Append(st.currentContentBlocks, TextBlock)
                          ELSE st.currentContentBlocks
               out1 == IF opens
                       THEN <<BlockStartEvent(index, "text", <<>>)>>
                       ELSE <<>>
               blocks2 == IF HasBlock(blocks1, index)
                          THEN [blocks1 EXCEPT ![index + 1] =
                                  AppendText(@, content)]
                          ELSE blocks1
               out2 == IF ~fileMode
                       THEN <<TextDeltaEvent(index, content)>>
                       ELSE <<>>
           IN  [st EXCEPT !.fullOutput = full,
                          !.currentContentBlocks = blocks2,
                          !.hasStartedTextBlock = TRUE,
                          !.out = out1 \o out2]
      ELSE [st EXCEPT !.contentBlockIndex = index + 1,
                      !.isToolUse = FALSE,
                      !.hasStartedTextBlock = FALSE,
                      !.out = <<BlockStopEvent(index)>>]

\* lines 350-393: a delta that carries text
TextBranch(st, content, fileMode) ==
  LET index == st.contentBlockIndex
      full == IF fileMode THEN st.fullOutput \o content ELSE st.fullOutput
  IN  IF ~st.isToolUse
      THEN LET opens == ~st.hasStartedTextBlock
               blocks1 == IF opens
                          THEN Append(st.currentContentBlocks, TextBlock)
                          ELSE st.currentContentBlocks
               out1 == IF opens
                       THEN <<BlockStartEvent(index, "text", <<>>)>>
                       ELSE <<>>
               blocks2 == IF HasBlock(blocks1, index)
                          THEN [blocks1 EXCEPT ![index + 1] =
                                  AppendText(@, content)]
                          ELSE blocks1
               out2 == IF ~fileMode
                       THEN <<TextDeltaEvent(index, content)>>
                       ELSE <<>>
           IN  [st EXCEPT !.fullOutput = full,
                          !.currentContentBlocks = blocks2,
                          !.hasStartedTextBlock = TRUE,
                          !.out = out1 \o out2]
      ELSE [st EXCEPT !.fullOutput = full,
                      !.contentBlockIndex = index + 1,
                      !.isToolUse = FALSE,
                      !.hasStartedTextBlock = FALSE,
                      !.out = <<BlockStopEvent(index)>>]

\* lines 307-394: one iteration
LoopBody(st, delta, fileMode) ==
  IF delta.tool_calls # <<>>
  THEN ToolCallBranch(st, delta.tool_calls[1])
  ELSE IF delta.content # <<>>
  THEN TextBranch(st, delta.content, fileMode)
  ELSE st

\* the upstream stream yields a chunk and the loop body runs on it
Chunk(delta, maxDeltas) ==
  /\ pc = "streaming"
  /\ Len(chunks) < maxDeltas
  /\ chunks' = Append(chunks, delta)
  /\ LET st == LoopBody(Locals, delta, req.output_mode = "file")
     IN  /\ contentBlockIndex' = st.contentBlockIndex
         /\ currentContentBlocks' = st.currentContentBlocks
         /\ hasStartedTextBlock' = st.hasStartedTextBlock
         /\ isToolUse' = st.isToolUse
         /\ toolUseJson' = st.toolUseJson
         /\ fullOutput' = st.fullOutput
         /\ events' = events \o st.out
  /\ UNCHANGED <<moduleVars, requestVars, pc, res, fileVars, clientConnected,
                 failure, lookups, returned, lookupResult,
                 pending>>

\* the upstream stream raises while it is iterated: the catch block
StreamThrows ==
  /\ pc = "streaming"
  /\ LET c == CatchBlock(res, "stream error")
     IN  res' = c.res /\ pc' = c.pc
  /\ failure' = "stream"
  /\ UNCHANGED <<moduleVars, requestVars, events, streamVars, fileVars,
                 clientConnected, lookups, returned, lookupResult,
                 pending>>

\* ClosingEvents with a fault: message_stop goes out before message_delta
ClosingEvents_StopFirst(fileMode, created, toolUse, blocks) ==
  (IF fileMode THEN <<FilesCreatedEvent(created)>> ELSE <<>>)
  \o <<MessageStopEvent, MessageDeltaEvent(toolUse, blocks)>>

\* lines 423-438: message_delta, message_stop (after files_created in
\* file mode)
ClosingEvents(fileMode, created, toolUse, blocks) ==
  (IF fileMode THEN <<FilesCreatedEvent(created)>> ELSE <<>>)
  \o <<MessageDeltaEvent(toolUse, blocks), MessageStopEvent>>

\* lines 397-401: the stop written once the loop is over
TrailingStop(index) == <<BlockStopEvent(index)>>

\* the upstream stream ends: lines 397-438, up to the first
\* fs.writeFile when file mode has files to write
StreamEnds ==
  /\ pc = "streaming"
  /\ LET fileMode == req.output_mode = "file"
         files == IF fileMode THEN parseFilesFromText(fullOutput) ELSE <<>>
     IN  IF files # <<>>
         THEN /\ events' = events \o TrailingStop(contentBlockIndex)
              /\ pendingFiles' = files
              /\ pc' = "writingFiles"
              /\ UNCHANGED res
         ELSE /\ events' = events \o TrailingStop(contentBlockIndex)
                             \o ClosingEvents(fileMode, <<>>, isToolUse,
                                              currentContentBlocks)
              /\ res' = [res EXCEPT !.ended = TRUE]
              /\ pc' = "done"
              /\ UNCHANGED pendingFiles
  /\ UNCHANGED <<moduleVars, requestVars, streamVars, createdFiles,
                 clientConnected, failure, lookups, returned, lookupResult,
                 pending>>

\* lines 410-421: one fs.writeFile settles; after the last file the
\* closing events are written and the response ends
FileWriteSettles(ok) ==
  /\ pc = "writingFiles"
  /\ IF ok
     THEN LET created == Append(createdFiles, Head(pendingFiles).name)
          IN  /\ createdFiles' = created
              /\ pendingFiles' = Tail(pendingFiles)
              /\ IF Tail(pendingFiles) = <<>>
                 THEN /\ events' = events \o ClosingEvents(TRUE, created,
                                      isToolUse, currentContentBlocks)
                      /\ res' = [res EXCEPT !.ended = TRUE]
                      /\ pc' = "done"
                 ELSE UNCHANGED <<events, res, pc>>
              /\ UNCHANGED failure
     ELSE LET c == CatchBlock(res, "write error")
          IN  /\ res' = c.res
              /\ pc' = c.pc
              /\ failure' = "file"
              /\ UNCHANGED <<events, fileVars>>
  /\ UNCHANGED <<moduleVars, requestVars, streamVars, clientConnected,
                 lookups, returned, lookupResult,
                 pending>>

\* the rejection that left the catch block reaches whatever runs the
\* handler, which app.mjs does not decide: a router that forwards it to
\* the default error handler, or a process that exits on an unhandled
\* rejection, tears the socket down; a router that ignores the promise
\* leaves the response open
RejectionSurfaces(destroys) ==
  /\ pc = "rejected"
  /\ pc' = "unhandled"
  /\ res' = [res EXCEPT !.destroyed = destroys]
  /\ UNCHANGED <<moduleVars, requestVars, events, streamVars, fileVars,
                 clientConnected, failure, lookups, returned, lookupResult,
                 pending>>

\* the client closes the connection; the handler registers no listener
\* and res.write neither throws nor is its result looked at
ClientDisconnects ==
  /\ pc \in {"streaming", "writingFiles"}
  /\ clientConnected
  /\ clientConnected' = FALSE
  /\ UNCHANGED <<moduleVars, requestVars, pc, res, events, streamVars,
                 fileVars, failure, lookups, returned, lookupResult,
                 pending>>

(* ------------------------------------------------------------------ *)
(* getCompletionWithRetry, lines 126-155                               *)
(* ------------------------------------------------------------------ *)
maxAttempts == 10
firstDelay == 1000
coolDown == 30000

Invokers == {1, 2}
\* how far the clock moves in one step
TickSteps == {1000, 15000}

IdleInvocation ==
  [pc |-> "idle", attempt |-> 0, delay |-> 0, wakeAt |-> 0, calls |-> 0,
   result |-> "none", seen |-> [open |-> FALSE, cooling |-> FALSE]]

InitInvoker ==
  /\ now = 0
  /\ inv = [i \in Invokers |-> IdleInvocation]
  /\ invocations = 0
  /\ trippedAt = 0

invokerVars == <<now, inv, invocations, trippedAt>>

vars == <<defaultModel, modelConfigCache, circuitBreaker, handlerVars, invokerVars>>

Init == InitHandler /\ InitInvoker

\* BreakerBlocks with a fault: the instant openUntil still counts as cooling
BreakerBlocks_Inclusive(cb, t) == cb.open /\ t <= cb.openUntil

\* line 130: the breaker is open and its cool-down has not elapsed
BreakerBlocks(cb, t) == cb.open /\ t < cb.openUntil

\* BreakerAfterCheck with a fault: the reset keeps the failure count
BreakerAfterCheck_KeepsCount(cb, t) ==
  IF cb.open /\ t >= cb.openUntil
  THEN [cb EXCEPT !.open = FALSE]
  ELSE cb

\* lines 132-135: an open breaker whose cool-down has elapsed is reset
BreakerAfterCheck(cb, t) ==
  IF cb.open /\ t >= cb.openUntil
  THEN [cb EXCEPT !.open = FALSE, !.failureCount = 0]
  ELSE cb

\* BreakerAfterFailure with a fault: the breaker opens without a new
\* deadline
BreakerAfterFailure_NoDeadline(cb, t) ==
  LET count == cb.failureCount + 1
  IN  IF count >= threshold
      THEN [cb EXCEPT !.failureCount = count, !.open = TRUE]
      ELSE [cb EXCEPT !.failureCount = count]

\* lines 142-148: a failed attempt counted at time t
BreakerAfterFailure(cb, t) ==
  LET count == cb.failureCount + 1
  IN  IF count >= threshold
      THEN [cb EXCEPT !.failureCount = count, !.open = TRUE,
                      !.openUntil = t + coolDown]
      ELSE [cb EXCEPT !.failureCount = count]

InProgress(i) == inv[i].pc \in {"calling", "sleeping"}

\* lines 127-138: an invocation starts and runs to its first await
Invoke(i) ==
  /\ ~InProgress(i)
  /\ invocations < MaxInvocations
  /\ invocations' = invocations + 1
  /\ LET \* what the invocation finds: whether the breaker is open, and
         \* whether less than the cool-down has passed since it opened
         seen == [open |-> circuitBreaker.open,
                  cooling |-> now < trippedAt + coolDown]
     IN  IF BreakerBlocks(circuitBreaker, now)
         THEN /\ inv' = [inv EXCEPT ![i] =
                    [IdleInvocation EXCEPT !.pc = "threw",
                                           !.result = "circuit_open",
                                           !.seen = seen]]
              /\ UNCHANGED circuitBreaker
         ELSE /\ circuitBreaker' = BreakerAfterCheck(circuitBreaker, now)
              /\ inv' = [inv EXCEPT ![i] =
                    [IdleInvocation EXCEPT !.pc = "calling", !.attempt = 1,
                                           !.delay = firstDelay, !.calls = 1,
                                           !.seen = seen]]
  /\ UNCHANGED <<defaultModel, modelConfigCache, handlerVars, now, trippedAt>>

\* lines 138-151: chat.completions.create settles for invocation i
AttemptSettles(i, ok) ==
  /\ inv[i].pc = "calling"
  /\ IF ok
     THEN /\ circuitBreaker' = [circuitBreaker EXCEPT !.failureCount = 0]
          /\ inv' = [inv EXCEPT ![i].pc = "returned", ![i].result = "stream"]
          /\ UNCHANGED trippedAt
     ELSE LET cb == BreakerAfterFailure(circuitBreaker, now)
              trips == circuitBreaker.failureCount + 1 >= threshold
          IN  /\ circuitBreaker' = cb
              /\ trippedAt' = IF trips THEN now ELSE trippedAt
              /\ IF trips \/ inv[i].attempt = maxAttempts
                 THEN inv' = [inv EXCEPT ![i].pc = "threw",
                                         ![i].result = "error"]
                 ELSE inv' = [inv EXCEPT ![i].pc = "sleeping",
                                         ![i].wakeAt = now + inv[i].delay]
  /\ UNCHANGED <<defaultModel, modelConfigCache, handlerVars, now, invocations>>

\* BackoffEnds with a fault: the delay stays what it was
BackoffEnds_NoDoubling(i) ==
  /\ inv[i].pc = "sleeping"
  /\ now >= inv[i].wakeAt
  /\ inv' = [inv EXCEPT ![i].pc = "calling",
                        ![i].attempt = inv[i].attempt + 1,
                        ![i].calls = inv[i].calls + 1]
  /\ UNCHANGED <<moduleVars, handlerVars, now, invocations, trippedAt>>

\* lines 151-152 and 136-138: the backoff timer fires, the delay doubles
\* and the next attempt is made
BackoffEnds(i) ==
  /\ inv[i].pc = "sleeping"
  /\ now >= inv[i].wakeAt
  /\ inv' = [inv EXCEPT ![i].pc = "calling",
                        ![i].delay = inv[i].delay * 2,
                        ![i].attempt = inv[i].attempt + 1,
                        ![i].calls = inv[i].calls + 1]
  /\ UNCHANGED <<moduleVars, handlerVars, now, invocations, trippedAt>>

\* time passes
Tick(d) ==
  /\ now + d <= MaxTime
  /\ now' = now + d
  /\ UNCHANGED <<moduleVars, handlerVars, inv, invocations, trippedAt>>

(* ------------------------------------------------------------------ *)
(* Specifications                                                      *)
(* ------------------------------------------------------------------ *)
\* The handler serving one request at a time.  Spec: one request without
\* sampling parameters whose upstream stream is any sequence of up to
\* MaxDeltas deltas, in stream and in file mode.
Next ==
  \/ \E r \in PlainRequests : ReceiveRequest(r, 1) /\ UNCHANGED invokerVars
  \/ \E ok \in BOOLEAN : ModelInfoSettles(ok) /\ UNCHANGED invokerVars
  \/ \E ok \in BOOLEAN : CompletionSettles(ok) /\ UNCHANGED invokerVars
  \/ \E d \in Deltas : Chunk(d, MaxDeltas) /\ UNCHANGED invokerVars
  \/ StreamThrows /\ UNCHANGED invokerVars
  \/ StreamEnds /\ UNCHANGED invokerVars
  \/ \E ok \in BOOLEAN : FileWriteSettles(ok) /\ UNCHANGED invokerVars
  \/ \E destroys \in BOOLEAN : RejectionSurfaces(destroys) /\ UNCHANGED invokerVars
  \/ ClientDisconnects /\ UNCHANGED invokerVars

Spec == Init /\ [][Next]_vars

\* up to MaxRequests requests one after the other, of every shape, each
\* with an upstream stream of at most one delta
NextGateway ==
  \/ \E r \in StreamRequests : ReceiveRequest(r, MaxRequests) /\ UNCHANGED invokerVars
  \/ \E ok \in BOOLEAN : ModelInfoSettles(ok) /\ UNCHANGED invokerVars
  \/ \E ok \in BOOLEAN : CompletionSettles(ok) /\ UNCHANGED invokerVars
  \/ \E d \in FewDeltas : Chunk(d, 1) /\ UNCHANGED invokerVars
  \/ StreamThrows /\ UNCHANGED invokerVars
  \/ StreamEnds /\ UNCHANGED invokerVars
  \/ \E destroys \in BOOLEAN : RejectionSurfaces(destroys) /\ UNCHANGED invokerVars

SpecGateway == Init /\ [][NextGateway]_vars

\* getCompletionWithRetry run by one caller at a time
NextInvoker ==
  \/ Invoke(1)
  \/ \E ok \in BOOLEAN : AttemptSettles(1, ok)
  \/ BackoffEnds(1)
  \/ \E d \in TickSteps : Tick(d)

SpecInvoker == Init /\ [][NextInvoker]_vars

\* time passes until the backoff timer of invocation i is due
TimerElapses(i) ==
  /\ inv[i].pc = "sleeping"
  /\ now < inv[i].wakeAt
  /\ now' = inv[i].wakeAt
  /\ UNCHANGED <<moduleVars, handlerVars, inv, invocations, trippedAt>>

\* getCompletionWithRetry run by two callers whose invocations overlap:
\* the upstream calls of caller 1 succeed or fail, those of caller 2
\* succeed
NextRetry ==
  \/ \E i \in Invokers : Invoke(i)
  \/ \E ok \in BOOLEAN : AttemptSettles(1, ok)
  \/ AttemptSettles(2, TRUE)
  \/ BackoffEnds(1)
  \/ TimerElapses(1)

\* a pending upstream call settles and a timer that is set fires
SpecRetry ==
  /\ Init
  /\ [][NextRetry]_vars
  /\ WF_vars(\E ok \in BOOLEAN : AttemptSettles(1, ok))
  /\ WF_vars(AttemptSettles(2, TRUE))
  /\ WF_vars(BackoffEnds(1))
  /\ WF_vars(TimerElapses(1))

\* getCompletionWithRetry run by two callers whose invocations overlap
\* and whose upstream calls succeed or fail independently
NextBreaker ==
  \/ \E i \in Invokers : Invoke(i)
  \/ \E i \in Invokers, ok \in BOOLEAN : AttemptSettles(i, ok)
  \/ \E i \in Invokers : BackoffEnds(i)
  \/ \E i \in Invokers : TimerElapses(i)

SpecBreaker == Init /\ [][NextBreaker]_vars

\* how many getModelConfig calls are made per model name
MaxCalls == 3

\* the names the concurrent callers ask for
ConfigNames == {M_gpt_4, M_llama}

\* lines 87-90: a caller other than the handler calls getModelConfig;
\* on a cache hit the call returns at once, on a miss it starts a
\* metadata lookup and awaits it
GetModelConfig(modelName) ==
  /\ Len(returned[modelName]) + pending[modelName] < MaxCalls
  /\ IF CacheHit(modelConfigCache, modelName)
     THEN /\ returned' = [returned EXCEPT ![modelName] =
                            Append(@, modelConfigCache[modelName])]
          /\ UNCHANGED <<lookups, pending>>
     ELSE /\ lookups' = [lookups EXCEPT ![modelName] = @ + 1]
          /\ pending' = [pending EXCEPT ![modelName] = @ + 1]
          /\ UNCHANGED returned
  /\ UNCHANGED <<moduleVars, pc, req, chosenModel, isNewModel, data, res,
                 events, streamVars, fileVars, clientConnected, warnings,
                 failure, chatCalls, lookupResult, nreq, invokerVars>>

\* lines 90-115: the lookup of one awaiting call settles; the call
\* stores its config in the cache and returns it
LookupSettles(modelName, ok) ==
  /\ pending[modelName] > 0
  /\ pending' = [pending EXCEPT ![modelName] = @ - 1]
  /\ LET config == ResolvedConfig(modelName, ok)
     IN  /\ modelConfigCache' = [modelConfigCache EXCEPT ![modelName] = config]
         /\ returned' = [returned EXCEPT ![modelName] = Append(@, config)]
  /\ lookupResult' = [lookupResult EXCEPT ![modelName] =
                        IF ok THEN "ok" ELSE "failed"]
  /\ UNCHANGED <<defaultModel, circuitBreaker, pc, req, chosenModel,
                 isNewModel, data, res, events, streamVars, fileVars,
                 clientConnected, warnings, failure, chatCalls, lookups, nreq,
                 invokerVars>>

\* getModelConfig called by callers whose calls overlap
NextConfig ==
  \/ \E n \in ConfigNames : GetModelConfig(n)
  \/ \E n \in ConfigNames, ok \in BOOLEAN : LookupSettles(n, ok)

SpecConfig == Init /\ [][NextConfig]_vars


(* ------------------------------------------------------------------ *)
(* Properties                                                          *)
(* ------------------------------------------------------------------ *)
CountType(evs, t) == Cardinality({i \in 1..Len(evs) : evs[i].type = t})

Kinds == {chunks[i].tool_calls # <<>> : i \in 1..Len(chunks)}

\* C1: when the upstream stream has been delivered without error and the
\* handler has finished, the events written start with the only
\* message_start and end with the only message_delta followed by the only
\* message_stop; message_start is on the wire before any chunk is taken.
C1_Envelope ==
  /\ events # <<>> => events[1].type = "message_start"
  /\ CountType(events, "message_start") <= 1
  /\ chunks # <<>> => events # <<>>
  /\ (pc = "streaming" /\ chunks = <<>>) =>
        events = <<MessageStartEvent(chosenModel)>>
  /\ pc \in {"streaming", "writingFiles"} =>
        /\ CountType(events, "message_delta") = 0
        /\ CountType(events, "message_stop") = 0
  /\ pc = "done" =>
        LET n == Len(events)
        IN  /\ n >= 3
            /\ events[n].type = "message_stop"
            /\ events[n - 1].type = "message_delta"
            /\ CountType(events, "message_start") = 1
            /\ CountType(events, "message_delta") = 1
            /\ CountType(events, "message_stop") = 1

\* a finished stream that interleaved text and tool-call deltas
C1_Witness ==
  /\ pc = "done"
  /\ Len(chunks) >= 2
  /\ Kinds = {TRUE, FALSE}
  /\ events[Len(events)].type = "message_stop"

\* C2: for a stream that completes without error, as many
\* content_block_stop events are written as content_block_start events.
C2_StopsEqualStarts ==
  pc = "done" =>
    CountType(events, "content_block_stop") =
      CountType(events, "content_block_start")

\* what an event says, without the block list message_delta carries
Shape(e) ==
  [type |-> e.type,
   index |-> IF "index" \in DOMAIN e THEN e.index ELSE 0 - 1,
   what |-> IF "block_type" \in DOMAIN e THEN e.block_type
            ELSE IF "delta_type" \in DOMAIN e THEN e.delta_type
            ELSE IF "stop_reason" \in DOMAIN e THEN e.stop_reason
            ELSE "",
   payload |-> IF "payload" \in DOMAIN e THEN e.payload ELSE <<>>]

Shapes(evs) == [i \in 1..Len(evs) |-> Shape(evs[i])]

ScenarioChunks ==
  <<TextDelta(Str_Hello), ToolDelta(Str_run, Args_full), TextDelta(Str_world)>>

ScenarioEvents ==
  <<MessageStartEvent(chosenModel),
    BlockStartEvent(0, "text", <<>>),
    TextDeltaEvent(0, Str_Hello),
    BlockStopEvent(0),
    BlockStartEvent(1, "tool_use", Str_run),
    JsonDeltaEvent(1, Args_full),
    BlockStopEvent(1),
    BlockStartEvent(2, "text", <<>>),
    TextDeltaEvent(2, Str_world),
    BlockStopEvent(2),
    MessageDeltaEvent(FALSE, <<>>),
    MessageStopEvent>>

\* C3: in stream mode the deltas "Hello", tool call run({"x":1}),
\* " world" are answered by the twelve events of the scenario: text block
\* 0, tool-use block 1 and text block 2, each started and stopped.
C3_Scenario ==
  (pc = "done" /\ req.output_mode = "stream" /\ chunks = ScenarioChunks) =>
    Shapes(events) = Shapes(ScenarioEvents)

\* C4: with one caller at a time, an invocation that finds the breaker
\* open less than the cool-down after it opened throws the circuit-open
\* error without any upstream call; one that finds it open when the
\* cool-down has elapsed resets it (open = FALSE, failureCount = 0) and
\* makes an upstream call; three consecutive failures leave it open.
C4_BreakerGate ==
  /\ circuitBreaker.failureCount >= threshold => circuitBreaker.open
  /\ \A i \in Invokers :
       LET v == inv[i]
       IN  /\ (v.pc = "threw" /\ v.result = "error" /\ v.calls >= 3) =>
                 /\ circuitBreaker.open
                 /\ circuitBreaker.openUntil = trippedAt + 30000
           /\ (v.pc # "idle" /\ v.seen.open /\ v.seen.cooling) =>
                 /\ v.pc = "threw"
                 /\ v.result = "circuit_open"
                 /\ v.calls = 0
           /\ (v.pc # "idle" /\ v.seen.open /\ ~v.seen.cooling) =>
                 /\ v.calls >= 1
                 /\ v.result # "circuit_open"
                 /\ (v.pc = "calling" /\ v.attempt = 1) =>
                       /\ ~circuitBreaker.open
                       /\ circuitBreaker.failureCount = 0

\* the breaker has opened, an invocation inside the cool-down has been
\* refused, and the next one, after the cool-down, is calling upstream
C4_Witness ==
  /\ invocations = 3
  /\ inv[1].seen.open
  /\ ~inv[1].seen.cooling
  /\ inv[1].pc = "calling"
  /\ now >= trippedAt + coolDown
  /\ trippedAt > 0

\* C5: an upstream chat-completion call that fails for a request is
\* counted by the circuit breaker (and retried), because the handler
\* calls upstream through getCompletionWithRetry.
C5_FailureCounted ==
  failure = "upstream" =>
    /\ circuitBreaker.failureCount >= 1
    /\ chatCalls >= 2

\* C6: a request that fails before message_start (messages missing, or
\* the upstream call rejected) is answered 400 with the JSON body
\* {status: "error", message}, no SSE event is written for it, and with
\* messages missing chat.completions.create is never called.
C6_EarlyFailure ==
  /\ failure \in {"body", "upstream"} =>
        /\ pc = "error400"
        /\ res.sentStatus = 400
        /\ res.body # None
        /\ The(res.body).status = "error"
        /\ res.ended
        /\ events = <<>>
  /\ (nreq > 0 /\ req.messages = None) =>
        /\ chatCalls = 0
        /\ (pc \in Terminal => failure = "body")
  /\ (failure = "upstream") => chatCalls = 1

\* a request without messages has been refused after its metadata lookup
C6_Witness ==
  /\ failure = "body"
  /\ pc = "error400"
  /\ req.messages = None
  /\ lookups[chosenModel] = 1
  /\ res.sentStatus = 400

\* C7: after a failure that follows message_start (the upstream stream
\* raises, or a file write fails) no message_stop is written, no 400 and
\* no JSON error go out, and once the handler is through the response
\* has been closed.
C7_LateFailureCloses ==
  failure \in {"stream", "file"} =>
    /\ CountType(events, "message_stop") = 0
    /\ res.sentStatus # 400
    /\ res.body = None
    /\ pc \in Terminal => res.ended \/ res.destroyed

\* C8: once the client has disconnected, the handler takes no further
\* chunk from the upstream stream.
C8_NoChunkAfterDisconnect ==
  [][(pc = "streaming" /\ ~clientConnected) => chunks' = chunks]_vars

\* C9: getModelConfig looks a model name up at most once, whether that
\* lookup succeeded or failed, and every call for the name returns the
\* same config, which after a failed lookup is the 16384 default.
C9_ResolveOnce ==
  \A n \in Names :
    /\ lookups[n] <= 1
    /\ \A i, j \in 1..Len(returned[n]) : returned[n][i] = returned[n][j]
    /\ returned[n] # <<>> => lookups[n] = 1 /\ returned[n][1] = modelConfigCache[n]
    /\ lookupResult[n] = "failed" => modelConfigCache[n] = 16384
    /\ lookupResult[n] = "ok" => modelConfigCache[n] = MaxTokensFor(n)

\* two calls for one name, the first of which had its lookup fail
C9_Witness ==
  \E n \in Names :
    /\ Len(returned[n]) = 2
    /\ lookupResult[n] = "failed"
    /\ lookups[n] = 1

FallbackWarnings == Cardinality({i \in 1..Len(warnings) : warnings[i] = "fallback"})

RequestedAllowed == req.model # None /\ Includes(allowedModels, The(req.model))

\* C10 as claimed: the upstream model is the requested model when that
\* is allowed and defaultModel otherwise, and the fallback warning is
\* given exactly once whenever defaultModel is substituted (model absent
\* or not allowed) and never otherwise.
C10_WarnOnEverySubstitution ==
  nreq > 0 =>
    /\ chosenModel = IF RequestedAllowed THEN The(req.model) ELSE defaultModel
    /\ data # NoData => data.model = chosenModel
    /\ FallbackWarnings = IF RequestedAllowed THEN 0 ELSE 1

\* C10 as amended: the upstream model is the requested model when that
\* is allowed and defaultModel otherwise; the fallback warning is given
\* exactly once when a model is named that is not allowed, or when none
\* is named and defaultModel itself is not allowed, and never otherwise.
C10_WarnOnDisallowed ==
  nreq > 0 =>
    /\ chosenModel = IF RequestedAllowed THEN The(req.model) ELSE defaultModel
    /\ data # NoData => data.model = chosenModel
    /\ FallbackWarnings =
         IF RequestedAllowed THEN 0
         ELSE IF TruthyStr(req.model) THEN 1
         ELSE IF Includes(allowedModels, defaultModel) THEN 0 ELSE 1

\* a request naming a model outside the allow-list went upstream with
\* defaultModel
C10_Witness ==
  /\ req.model = Some(M_claude)
  /\ data # NoData
  /\ data.model = defaultModel
  /\ warnings = <<"fallback">>

\* the reasoning-style models, whose temperature the upstream API fixes
ReasoningModels == {M_o1, M_o1_mini, M_o3, M_o3_mini}

\* C11: the upstream request of a reasoning-style model has temperature 1
\* whatever the caller sent; the upstream request of the allowed legacy
\* chat model gpt-4 carries the caller's temperature unchanged and the
\* caller's max_tokens as max_tokens, unclamped, and no
\* max_completion_tokens.
C11_TemperatureByFamily ==
  data # NoData =>
    /\ chosenModel \in ReasoningModels => data.temperature = Some(1)
    /\ chosenModel = M_gpt_4 =>
          /\ data.temperature = req.temperature
          /\ data.max_tokens = req.max_tokens
          /\ data.max_completion_tokens = None

\* the positions of the content_block_start events
StartPositions(evs) ==
  {i \in 1..Len(evs) : evs[i].type = "content_block_start"}

\* blocks started and not yet stopped after the first n events
OpenBlocks(evs, n) ==
  CountType(SubSeq(evs, 1, n), "content_block_start")
    - CountType(SubSeq(evs, 1, n), "content_block_stop")

\* C12: at every point of the event sequence at most one content block
\* is started and not yet stopped, and no two content_block_start events
\* carry the same index: a delta of the other kind closes the open block
\* and increments the index before the new block is started.
C12_OneOpenBlock ==
  /\ \A n \in 1..Len(events) : OpenBlocks(events, n) <= 1
  /\ \A i, j \in StartPositions(events) :
       i # j => events[i].index # events[j].index

\* the fragments of the non-empty text deltas among the chunks, in order
TextFragments(cs) ==
  LET IsText(c) == c.tool_calls = <<>> /\ c.content # <<>>
      texts == SelectSeq(cs, IsText)
  IN  [i \in 1..Len(texts) |-> texts[i].content]

\* the fragments carried by the text content_block_delta events, in order
EmittedFragments(evs) ==
  LET IsTextDelta(e) ==
        e.type = "content_block_delta" /\ e.delta_type = "text_delta"
      deltas == SelectSeq(evs, IsTextDelta)
  IN  [i \in 1..Len(deltas) |-> deltas[i].payload]

\* C13: in stream mode every non-empty text delta taken from the upstream
\* stream, also one that arrives while a tool-use block is open, has been
\* written as exactly one text content_block_delta, in arrival order.
C13_EveryTextDeltaEmitted ==
  (req.output_mode = "stream" /\ pc \in {"streaming", "done"}) =>
    EmittedFragments(events) = TextFragments(chunks)

\* the last chunk that carries tool calls or text is a tool-call delta
LastBearingIsToolCall(cs) ==
  \E i \in 1..Len(cs) :
    /\ cs[i].tool_calls # <<>>
    /\ \A j \in (i + 1)..Len(cs) : cs[j] = EmptyDelta

\* C14: the stop_reason of message_delta is "tool_use" exactly when the
\* last delta of the upstream stream that carried tool calls or text was
\* a tool-call delta, and "end_turn" otherwise, the empty stream included.
C14_StopReason ==
  pc = "done" =>
    events[Len(events) - 1].stop_reason =
      IF LastBearingIsToolCall(chunks) THEN "tool_use" ELSE "end_turn"

\* a finished stream of text, a tool call and a delta without content
C14_Witness ==
  /\ pc = "done"
  /\ Len(chunks) = 3
  /\ chunks[1].content # <<>>
  /\ chunks[2].tool_calls # <<>>
  /\ chunks[3] = EmptyDelta
  /\ events[Len(events) - 1].stop_reason = "tool_use"

\* C15: the failed attempt that brings failureCount to 3 opens the
\* breaker with openUntil = (time of the failure) + 30000 and ends the
\* invocation with that attempt's error; an invocation that has thrown
\* makes no further attempt and does not sleep; a successful attempt sets
\* failureCount to 0 and returns the stream.
C15_TripFailsAtOnce ==
  [][\A i \in Invokers :
       /\ (inv[i].pc = "calling" /\ inv'[i].pc # "calling") =>
             /\ inv'[i].calls = inv[i].calls
             /\ inv'[i].pc = "returned" =>
                   /\ circuitBreaker'.failureCount = 0
                   /\ inv'[i].result = "stream"
             /\ (inv'[i].pc # "returned" /\ circuitBreaker.failureCount + 1 = 3) =>
                   /\ circuitBreaker'.failureCount = 3
                   /\ circuitBreaker'.open
                   /\ circuitBreaker'.openUntil = now + 30000
                   /\ inv'[i].pc = "threw"
                   /\ inv'[i].result = "error"
       /\ (inv[i].pc = "threw" /\ invocations' = invocations) =>
             inv'[i] = inv[i]]_vars

\* the third failure in a row, at a time after the start, has opened the
\* breaker and ended the invocation
C15_Witness ==
  /\ inv[1].pc = "threw"
  /\ inv[1].result = "error"
  /\ inv[1].calls = 3
  /\ circuitBreaker.open
  /\ circuitBreaker.failureCount = 3
  /\ trippedAt = now
  /\ now > 0
  /\ circuitBreaker.openUntil = now + coolDown

RECURSIVE Pow2(_)
Pow2(n) == IF n = 0 THEN 1 ELSE 2 * Pow2(n - 1)

Finished(i) == inv[i].pc \in {"returned", "threw"}

\* C16: an invocation makes at most 10 upstream attempts; after failed
\* attempt k it sleeps 1000 * 2^(k-1) ms and then makes attempt k+1; when
\* the 10th attempt fails the invocation ends with that attempt's error,
\* the breaker tripped or not; and every invocation in progress ends,
\* with a stream or with an error.
C16_BoundedRetry ==
  /\ [](\A i \in Invokers : inv[i].attempt <= 10 /\ inv[i].calls <= 10)
  /\ [][\A i \in Invokers :
          /\ (inv[i].pc = "calling" /\ inv'[i].pc = "sleeping") =>
                /\ inv[i].attempt < 10
                /\ inv'[i].wakeAt = now + 1000 * Pow2(inv[i].attempt - 1)
          /\ (inv[i].pc = "sleeping" /\ inv'[i].pc = "calling") =>
                /\ now >= inv[i].wakeAt
                /\ inv'[i].attempt = inv[i].attempt + 1
                /\ inv'[i].calls = inv[i].calls + 1
          /\ (inv[i].pc = "calling" /\ inv[i].attempt = 10
                /\ inv'[i].pc \notin {"calling", "returned"}) =>
                /\ inv'[i].pc = "threw"
                /\ inv'[i].result = "error"]_vars
  /\ \A i \in Invokers :
       InProgress(i) ~> (Finished(i) /\ inv[i].result \in {"stream", "error"})

\* the 10th attempt of an invocation has failed while the breaker stayed
\* closed, after the nine sleeps of 1000 ms to 256000 ms
C16_Witness ==
  /\ inv[1].pc = "threw"
  /\ inv[1].result = "error"
  /\ inv[1].attempt = 10
  /\ inv[1].calls = 10
  /\ ~circuitBreaker.open
  /\ now = 511000

RECURSIVE Flatten(_)
Flatten(ss) == IF ss = <<>> THEN <<>> ELSE Head(ss) \o Flatten(Tail(ss))

\* C17: in file mode no text content_block_delta is written, the full
\* output is the concatenation of all the text deltas taken so far (those
\* that arrived while a tool-use block was open included), no
\* files_created is written while the stream or the file writes go on,
\* and a finished response holds exactly one files_created, right after
\* the trailing content_block_stop and right before message_delta; in
\* stream mode no files_created is ever written.
C17_FileMode ==
  /\ (nreq > 0 /\ req.output_mode = "file") =>
        /\ EmittedFragments(events) = <<>>
        /\ fullOutput = Flatten(TextFragments(chunks))
        /\ pc # "done" => CountType(events, "files_created") = 0
        /\ pc = "done" =>
              LET n == Len(events)
              IN  /\ CountType(events, "files_created") = 1
                  /\ events[n - 3].type = "content_block_stop"
                  /\ events[n - 2].type = "files_created"
                  /\ events[n - 2].files = createdFiles
                  /\ events[n - 1].type = "message_delta"
  /\ req.output_mode # "file" =>
        /\ CountType(events, "files_created") = 0
        /\ fullOutput = <<>>

\* a finished file-mode response whose file text arrived while a tool-use
\* block was open
C17_Witness ==
  /\ pc = "done"
  /\ req.output_mode = "file"
  /\ Len(chunks) = 2
  /\ chunks[1].tool_calls # <<>>
  /\ chunks[2] = TextDelta(Str_file)
  /\ fullOutput = Str_file
  /\ createdFiles # <<>>
  /\ CountType(events, "files_created") = 1

\* C18: whatever the interleaving of getModelConfig calls for one name
\* and whatever the outcome of each lookup, a cache entry that holds a
\* profile is never replaced by a different one, and all the calls for
\* the name return the same profile.
C18_CacheAppendOnly ==
  [][\A n \in Names :
       /\ CacheHit(modelConfigCache, n) =>
             modelConfigCache'[n] = modelConfigCache[n]
       /\ \A i, j \in 1..Len(returned'[n]) :
             returned'[n][i] = returned'[n][j]]_vars

\* the events from the k-th content_block_start up to the next one
Segment(evs, k) ==
  LET starts == {i \in 1..Len(evs) : evs[i].type = "content_block_start"}
      Before(i) == Cardinality({j \in starts : j <= i})
      IsIn(i) == Before(i) = k
      first == CHOOSE i \in starts : Before(i) = k
      last == CHOOSE i \in first..Len(evs) :
                /\ \A j \in first..i : IsIn(j)
                /\ i = Len(evs) \/ ~IsIn(i + 1)
  IN  SubSeq(evs, first, last)

\* the payloads of the deltas of one kind among the events
Payloads(evs, kind) ==
  LET Is(e) == e.type = "content_block_delta" /\ e.delta_type = kind
      ds == SelectSeq(evs, Is)
  IN  [i \in 1..Len(ds) |-> ds[i].payload]

\* the input a tool-use block has after the argument fragments parts:
\* the value of the last accumulation that parsed
RECURSIVE InputAfter(_, _, _)
InputAfter(parts, acc, input) ==
  IF parts = <<>> THEN input
  ELSE LET acc1 == acc \o Head(parts)
           parsed == JsonParse(acc1)
       IN  InputAfter(Tail(parts), acc1,
                      IF parsed.ok THEN parsed.value ELSE input)

\* C19: the block list holds one block per content_block_start written,
\* in the same order and of the same type; a text block has no input and
\* (in stream mode) its text is the text of the deltas written for it; a
\* tool-use block has no text and its input is the last parsed
\* accumulation of the argument fragments written for it; message_delta
\* carries that list.
C19_TrackedBlockIsOpen ==
  pc \in {"streaming", "writingFiles", "done"} =>
    LET n == CountType(events, "content_block_start")
    IN  /\ Len(currentContentBlocks) = n
        /\ \A k \in 1..n :
             LET seg == Segment(events, k)
                 b == currentContentBlocks[k]
             IN  /\ b.type = seg[1].block_type
                 /\ b.type = "text" =>
                       /\ ~b.hasInput
                       /\ req.output_mode = "stream" =>
                             b.text = Flatten(Payloads(seg, "text_delta"))
                 /\ b.type = "tool_use" =>
                       /\ ~b.hasText
                       /\ b.input =
                            InputAfter(Payloads(seg, "input_json_delta"),
                                       <<>>, EmptyObject)
        /\ pc = "done" =>
             events[Len(events) - 1].content = currentContentBlocks

\* C20: with one caller at a time an invocation makes at most 3 upstream
\* attempts and sleeps at most twice, 1000 ms and then 2000 ms; an
\* invocation that ends with an error after upstream attempts has made
\* exactly 3 and has opened the breaker, so the 10th attempt is never
\* reached.
C20_ThreeAttemptsAtMost ==
  LET v == inv[1]
  IN  /\ v.calls <= 3
      /\ v.attempt <= 3
      /\ v.pc = "sleeping" =>
            /\ v.attempt \in {1, 2}
            /\ v.delay = (IF v.attempt = 1 THEN 1000 ELSE 2000)
            /\ v.wakeAt <= now + v.delay
      /\ (v.pc = "threw" /\ v.result = "error") =>
            /\ v.calls = 3
            /\ circuitBreaker.open
            /\ circuitBreaker.failureCount = 3

\* the second sleep of an invocation, 2000 ms, is under way
C20_Witness ==
  /\ inv[1].pc = "sleeping"
  /\ inv[1].attempt = 2
  /\ inv[1].delay = 2000
  /\ inv[1].calls = 2
  /\ circuitBreaker.failureCount = 2

\* C21: whatever the interleaving of the invocations that share the
\* breaker, no upstream call is started while the breaker is open and its
\* cool-down has not elapsed, and whenever the breaker is open
\* failureCount is at least 3.
C21_BreakerRespected ==
  [][/\ \A i \in Invokers :
          (inv[i].pc # "calling" /\ inv'[i].pc = "calling") =>
             ~(circuitBreaker'.open /\ now' < circuitBreaker'.openUntil)
     /\ circuitBreaker'.open => circuitBreaker'.failureCount >= 3]_vars

====
